---------------------------- MODULE Spec2Model ----------------------------
(***************************************************************************)
(* State-machine model of libethash-sqrl/SQRLMiner.cpp: the worker thread  *)
(* (workLoop, initEpoch_internal, search, setClock), the telemetry thread  *)
(* (getTelemetry) and the farm-side callers of kick_miner, sharing the     *)
(* register channel guarded by axiMutex.                                   *)
(*                                                                         *)
(* 32-bit words that do not fit a model integer are kept symbolically:     *)
(* 0xFFFFFFFF is -1 and 0xFFFFFFFD is -3 (two's complement), and the DAG   *)
(* status word is the pair (bit 31, low 31 bits), the contents of the      *)
(* reciprocal register are named by the item count they were computed      *)
(* for. Helper computations (mixer ranges, the reciprocal's arithmetic,    *)
(* VID search, setVoltage) have specifications of their own over fn.       *)
(***************************************************************************)
EXTENDS Integers, Sequences, FiniteSets

(* ------------------------------ bounds -------------------------------- *)
MaxWorks == 2
MaxEstops == 1
MaxSols == 1
MaxMixers == 8
MaxSmallItems == 130
ExtraBits == 30
VoltMargin == 2
MaxCalls == 2
MaxChunks == 2
MaxOps == 5
MaxAvgCalls == 4

(* ------------------------- program constants -------------------------- *)
CoreEnable == 65537
PwrOn == -1
PwrReset == -3
DupChunks == 256
ScaleBits == 60
ShiftBits == 4
WordBits == 32
DoubleBits == 53
MinDiv8 == 16
HealthDefault == 3
Vco == 1200
StockDiv8 == 32

(* ---------------------------- input values ---------------------------- *)
Epochs == {1, 2}
SCntVals == {0, 1}
TChkDeltas == {0}
Nonces == {11, 12}
\* stack-health words: safe, hot but safe, one condition alone, several
HealthWords == {3, 3 + 8 * 71 + 2048 * 71, 7, 1027, 2, 1, 0, 1031}
NoFlags == [forceDAG |-> FALSE, skipDAG |-> FALSE, dieOnError |-> FALSE,
            skipStallDetection |-> FALSE]
\* configurations: the default, each option alone, all options together
Configs == {NoFlags,
            [NoFlags EXCEPT !.forceDAG = TRUE],
            [NoFlags EXCEPT !.skipDAG = TRUE],
            [NoFlags EXCEPT !.dieOnError = TRUE],
            [NoFlags EXCEPT !.skipStallDetection = TRUE],
            [forceDAG |-> TRUE, skipDAG |-> TRUE, dieOnError |-> TRUE,
             skipStallDetection |-> TRUE]}

NoWork == [id |-> 0, epoch |-> -1]
ZeroWord == [hi |-> 0, lo |-> 0]

VARIABLES
    pc,             \* program position of "worker" and "telemetry"
    axiMutex,       \* "free" or the thread holding the access lock
    m_new_work,     \* atomic work-pending flag
    m_dagging,      \* busy flag
    intKicked,      \* SQRLAXIKickInterrupts reached the parked interrupt wait
    exited,         \* exit(1) was called
    m_settings,     \* forceDAG, skipDAG, dieOnError, skipStallDetection
    targetClk,      \* m_deviceDescriptor.targetClk
    m_lastClk,
    regs,           \* device registers
    m_work,         \* work package held by the Miner base
    m_epochContext, \* epoch context set by the farm
    workSeq,        \* number of work packages issued
    workBudget,     \* number of work packages the farm will issue
    stopReq,        \* shouldStop()
    estops,         \* number of unhealthy readings so far
    wloc,           \* workLoop locals: w, current
    sloc,           \* search locals, and why the loop was left
    scloc,          \* setClock frame of the worker
    tel,            \* getTelemetry locals
    sink,           \* solutions handed to Farm::submitProof by this search
    m_hashCounter,
    ie,             \* record of the current initEpoch_internal call
    genDone,        \* epochs whose full generation persisted the status word
    kickOwed,       \* a kick_miner call arrived during this search invocation
                    \* or this poll loop of the epoch pipeline
    fn,             \* the call of a helper computation: inputs and results
    axiFaulty       \* the register channel can fail setClock's save-reads

minerVars == <<pc, axiMutex, m_new_work, m_dagging, intKicked, exited,
               m_settings, targetClk, m_lastClk, regs, m_work, m_epochContext,
               workSeq, workBudget, stopReq, estops, wloc, sloc, scloc, tel,
               sink, m_hashCounter, ie, genDone, kickOwed, axiFaulty>>
vars == <<minerVars, fn>>

envVars == <<m_work, m_epochContext, workSeq, stopReq>>
cfgVars == <<m_settings, targetClk, workBudget, fn, axiFaulty>>
searchOut == <<sink, m_hashCounter>>
ghostIE == <<ie, genDone>>

(* ------------------------------ helpers ------------------------------- *)
Bit(word, k) == (word \div (2 ^ k)) % 2

SearchPCs == {"s_entry", "s_program", "s_loop", "s_wait", "s_relock",
              "s_stop", "s_unlock"}
SearchLoopPCs == {"s_entry", "s_program", "s_loop", "s_wait", "s_relock"}
PollPCs == {"ie_cache_sleep", "ie_dag_sleep"}

IEReset == [writes |-> {}, read |-> "none", epoch |-> 0, word |-> ZeroWord,
            doneBefore |-> FALSE, genSeen |-> FALSE, copies |-> 0,
            finalCopy |-> FALSE, resleep |-> FALSE, tick |-> 0]
SLocInit == [lastSCnt |-> 0, iter |-> 0, nonceValid |-> FALSE, nonce |-> 0,
             exit |-> "none", axiRes |-> "none"]
\* contents of the reciprocal register 0x5088, kept symbolically: the word
\* computed at line 508 for an item count, the word 0, and a word left on the
\* stack; then the values an uninitialised local may hold
RecipWord(nItems) == [kind |-> "reciprocal", of |-> nItems]
ZeroRecip == [kind |-> "zero", of |-> 0]
StackWords == {ZeroRecip, [kind |-> "stack", of |-> 0]}
StackInts == {0, 57005}

\* the setClock frame: the saved registers, and for the record of the call
\* the registers as they were and which save-reads succeeded
SCFrame(target, ret) ==
    [target |-> target, ret |-> ret, nItems |-> 0, rnItems |-> ZeroRecip,
     pwr |-> 0,
     pre |-> [nItems |-> 0, rnItems |-> ZeroRecip, pwr |-> 0],
     ok |-> [nItems |-> TRUE, rnItems |-> TRUE, pwr |-> TRUE]]
SCInit == SCFrame(0, "none")
TelInit == [raw |-> HealthDefault]

ClockOf(div8) == (Vco * 8) \div div8

\* vco/(target+1) rounded up to a multiple of 1/8, kept in eighths:
\* (int)(desiredDiv * 8 + 0.99)
DesiredDiv8(target) == (Vco * 800 + 99 * (target + 1)) \div (100 * (target + 1))

(* ------------------ wide words and the reciprocal --------------------- *)
\* Numbers wider than a model integer are sequences of bits, most significant
\* first.
\* long division of a number given by its hexadecimal digits (the first digit,
\* then left - 1 zeros) by n, four bits a step: the quotient bits and the
\* remainder; rem is the remainder so far
RECURSIVE LongDiv(_, _, _, _)
LongDiv(n, rem, digit, left) ==
    IF left = 0 THEN [bits |-> <<>>, rem |-> rem]
    ELSE LET r == 16 * rem + digit
             q == r \div n
             rest == LongDiv(n, r - q * n, 0, left - 1)
         IN  [bits |-> <<q \div 8, (q \div 4) % 2, (q \div 2) % 2, q % 2>>
                          \o rest.bits,
              rem |-> rest.rem]

\* 2^k / n: floor(2^k / n) as k + 1 bits, and the remainder
PowerDiv(n, k) ==
    LET digits == (k \div 4) + 1
        d == LongDiv(n, 0, 2 ^ (k % 4), digits)
    IN  [bits |-> SubSeq(d.bits, 4 * digits - k, 4 * digits), rem |-> d.rem]

QuotBits(n, k) == PowerDiv(n, k).bits

\* bits plus one unit at index j, the carry running to the front
RECURSIVE AddAt(_, _)
AddAt(bits, j) ==
    IF j = 0 THEN bits
    ELSE LET put(b) == SubSeq(bits, 1, j - 1) \o <<b>>
                           \o SubSeq(bits, j + 1, Len(bits))
         IN  IF bits[j] = 0 THEN put(1) ELSE AddAt(put(0), j - 1)

\* 1.0 / (double)n: the quotient rounded to the 53 significant bits of a double,
\* to nearest, ties to even; exact is whether the division left no remainder
RoundToDouble(bits, exact) ==
    LET lead == CHOOSE j \in 1..Len(bits) :
                    bits[j] = 1 /\ \A i \in 1..(j - 1) : bits[i] = 0
        last == lead + DoubleBits - 1
        kept == SubSeq(bits, 1, last) \o [j \in 1..(Len(bits) - last) |-> 0]
        half == last < Len(bits) /\ bits[last + 1] = 1
        more == ~exact \/ \E j \in (last + 2)..Len(bits) : bits[j] = 1
    IN  IF half /\ (more \/ bits[last] = 1) THEN AddAt(kept, last) ELSE kept

\* line 508: the uint32_t that receives the shifted 64-bit value keeps its low
\* 32 bits
Word32(bits) == SubSeq(bits, Len(bits) - WordBits + 1, Len(bits))

\* lines 507-508: reciprical = 1.0/(double)nItems * 2^60;
\* intR = (uint64_t)reciprical >> 4
Reciprocal(nItems) ==
    LET k == ScaleBits + ExtraBits
        quot == PowerDiv(nItems, k)
        recip == RoundToDouble(quot.bits, quot.rem = 0)
        \* the cast drops the bits below 2^0, the shift four more
        shifted == SubSeq(recip, 1, ScaleBits + 1 - ShiftBits)
    IN  Word32(shifted)

FnIdle == [op |-> "idle"]

\* the state after construction on a device whose status register 0x40B8 holds
\* one of words (the register outlives the process)
InitDevice(configs, clks, budget, words, faults) ==
    /\ pc = [worker |-> "wl_init", telemetry |-> "t_idle"]
    /\ axiMutex = "free"
    /\ m_new_work = FALSE
    /\ m_dagging = FALSE
    /\ intKicked = FALSE
    /\ exited = FALSE
    /\ m_settings \in configs
    /\ targetClk \in clks
    /\ workBudget = budget
    /\ m_lastClk = 0
    /\ \E word \in words :
          regs = [r506c |-> 0, r40B8 |-> word, rB000 |-> 0, r5040 |-> 0,
                  r5088 |-> ZeroRecip, r8208 |-> StockDiv8]
    /\ m_work = NoWork
    /\ m_epochContext = [epochNumber |-> 0]
    /\ workSeq = 0
    /\ stopReq = FALSE
    /\ estops = 0
    /\ wloc = [w |-> NoWork, current |-> -1]
    /\ sloc = SLocInit
    /\ scloc = SCInit
    /\ tel = TelInit
    /\ sink = <<>>
    /\ m_hashCounter = 0
    /\ ie = IEReset
    /\ genDone = {}
    /\ kickOwed = FALSE
    /\ axiFaulty \in faults

InitMiner(configs, clks, budget) ==
    InitDevice(configs, clks, budget, {ZeroWord}, {FALSE})

InitWith(configs, clks, budget) ==
    /\ InitMiner(configs, clks, budget)
    /\ fn = FnIdle

Init == InitWith(Configs, {400}, MaxWorks)

\* the epoch pipeline over one more work package, with and without forceDAG
InitEpochs == InitWith({NoFlags, [NoFlags EXCEPT !.forceDAG = TRUE]}, {400},
                       MaxWorks + 1)

\* status words found on the device at start: never written, valid bit clear
\* over a matching epoch field, valid with bits above the epoch field, valid
\* for another epoch
FoundWords == {ZeroWord, [hi |-> 0, lo |-> 1], [hi |-> 1, lo |-> 65536 + 1],
               [hi |-> 1, lo |-> 2]}
InitStatus ==
    /\ InitDevice({NoFlags, [NoFlags EXCEPT !.forceDAG = TRUE]}, {400}, MaxWorks,
                  FoundWords, {FALSE})
    /\ fn = FnIdle

\* configured target clocks (MHz): none, below the stock clock, one whose
\* divisor is not a multiple of 1/8, one above the limit
ClockTargets == {0, 200, 456, 700}
InitClocks == InitWith({NoFlags}, ClockTargets, MaxWorks)

\* a register channel on which setClock's save-reads can fail
InitSave ==
    /\ InitDevice({NoFlags}, {400}, MaxWorks, {ZeroWord}, {TRUE})
    /\ fn = FnIdle

Running == ~exited

Lock(t) == /\ axiMutex = "free"
           /\ axiMutex' = t
UnlockKept == axiMutex' = axiMutex
Unlock == axiMutex' = "free"
Goto(t, label) == pc' = [pc EXCEPT ![t] = label]

(* --------------------------- kick_miner ------------------------------- *)
\* as run by any calling thread, dagging being the m_dagging it reads
kick_miner(dagging) ==
    /\ m_new_work' = TRUE
    /\ intKicked' = IF ~dagging /\ pc["worker"] = "s_wait" THEN TRUE ELSE intKicked
    /\ kickOwed' = IF pc["worker"] \in SearchLoopPCs \cup PollPCs THEN TRUE
                   ELSE kickOwed

(* ------------------- farm side (Miner / Worker base) ------------------- *)
\* Miner::setWork: store the package and the epoch context, then kick_miner()
NewWork(e) ==
    /\ Running
    /\ workSeq < workBudget
    /\ workSeq' = workSeq + 1
    /\ m_work' = [id |-> workSeq + 1, epoch |-> e]
    /\ m_epochContext' = [epochNumber |-> e]
    /\ kick_miner(m_dagging)
    /\ UNCHANGED <<pc, axiMutex, m_dagging, exited, cfgVars, estops, m_lastClk,
                   regs, stopReq, wloc, sloc, scloc, tel, searchOut, ghostIE>>

\* shutdown: the stop state is set, then kick_miner()
StopRequest ==
    /\ Running
    /\ ~stopReq
    /\ stopReq' = TRUE
    /\ kick_miner(m_dagging)
    /\ UNCHANGED <<pc, axiMutex, m_dagging, exited, cfgVars, estops, m_lastClk,
                   regs, m_work, m_epochContext, workSeq, wloc, sloc, scloc,
                   tel, searchOut, ghostIE>>

(* ------------------------------ workLoop ------------------------------ *)
\* lines 1197-1201 with initDevice (247-354): connect, stock clock, m_lastClk
WL_Init ==
    /\ Running
    /\ pc["worker"] = "wl_init"
    /\ \E connected \in BOOLEAN, clkOk \in BOOLEAN :
          IF ~connected
          THEN /\ Goto("worker", "wl_done")
               /\ UNCHANGED <<regs, m_lastClk, wloc>>
          ELSE /\ regs' = IF clkOk THEN [regs EXCEPT !.r8208 = StockDiv8] ELSE regs
               /\ m_lastClk' = IF targetClk # 0 THEN targetClk
                               ELSE IF clkOk THEN ClockOf(regs'.r8208) ELSE 0
               /\ wloc' = [w |-> NoWork, current |-> -1]
               /\ Goto("worker", "wl_top")
    /\ UNCHANGED <<axiMutex, m_new_work, m_dagging, intKicked, exited, cfgVars, estops,
                   envVars, sloc, scloc, tel, searchOut, ghostIE, kickOwed>>

EpochChangeNever(current, w) == FALSE
\* line 1219: if (current.epoch != w.epoch)
EpochChange(current, w) == current # w.epoch

\* lines 1203-1237: one pass of the loop head up to the call it makes
WL_Top ==
    /\ Running
    /\ pc["worker"] = "wl_top"
    /\ IF stopReq
       THEN /\ Goto("worker", "wl_done")
            /\ UNCHANGED <<wloc, kickOwed>>
       ELSE /\ m_work # NoWork
            /\ kickOwed' = FALSE
            /\ IF EpochChange(wloc.current, m_work)
               THEN /\ wloc' = [wloc EXCEPT !.w = m_work]
                    /\ Goto("worker", "ie_begin")
               ELSE /\ wloc' = [w |-> m_work, current |-> m_work.epoch]
                    /\ Goto("worker", "s_entry")
    /\ UNCHANGED <<axiMutex, m_new_work, m_dagging, intKicked, exited, cfgVars, estops,
                   m_lastClk, regs, envVars, sloc, scloc, tel, searchOut, ghostIE>>

(* ------------------------------- search ------------------------------- *)
StopHashcoreRampOnly(r) == r

\* lines 213-245: afterwards core control 0x506c holds 0
StopHashcore(r) == [r EXCEPT !.r506c = 0]

\* line 753
S_Entry ==
    /\ Running
    /\ pc["worker"] = "s_entry"
    /\ m_new_work' = FALSE
    /\ Goto("worker", "s_program")
    /\ UNCHANGED <<axiMutex, m_dagging, intKicked, exited, cfgVars, estops, m_lastClk,
                   regs, envVars, wloc, sloc, scloc, tel, searchOut, ghostIE,
                   kickOwed>>

\* lines 756-812: lock, program the work, enable the core
S_Program ==
    /\ Running
    /\ pc["worker"] = "s_program"
    /\ Lock("worker")
    /\ \E flagsOk \in BOOLEAN :
          IF ~flagsOk /\ m_settings.dieOnError
          THEN /\ exited' = TRUE
               /\ UNCHANGED <<regs, sloc, pc>>
          ELSE /\ regs' = [regs EXCEPT !.r506c = CoreEnable]
               /\ sloc' = SLocInit
               /\ Goto("worker", "s_loop")
               /\ UNCHANGED exited
    /\ UNCHANGED <<m_new_work, m_dagging, intKicked, cfgVars, estops, m_lastClk, envVars,
                   wloc, scloc, tel, searchOut, ghostIE, kickOwed>>

\* lines 815-825: the loop boundary
S_LoopExit == m_new_work \/ stopReq
S_Loop ==
    /\ Running
    /\ pc["worker"] = "s_loop"
    /\ IF S_LoopExit
       THEN /\ m_new_work' = FALSE
            /\ kickOwed' = FALSE
            /\ sloc' = [sloc EXCEPT !.exit = IF m_new_work THEN "newwork"
                                              ELSE "stop"]
            /\ Goto("worker", "s_stop")
            /\ UNCHANGED axiMutex
       ELSE /\ Unlock
            /\ Goto("worker", "s_wait")
            /\ UNCHANGED <<m_new_work, kickOwed, sloc>>
    /\ UNCHANGED <<m_dagging, intKicked, exited, cfgVars, estops, m_lastClk, regs,
                   envVars, wloc, scloc, tel, searchOut, ghostIE>>

NonceValidUnlessError(axiRes) == axiRes # "error"
\* lines 878-884: nonceValid[0] after the wait
NonceValid(axiRes) == axiRes = "ok"

\* lines 876-889: SQRLAXIWaitForInterrupt returns
S_Wait ==
    /\ Running
    /\ pc["worker"] = "s_wait"
    /\ intKicked' = FALSE
    /\ \E res \in {"ok", "timeout", "error"}, n \in Nonces :
          /\ res = "ok" => Len(sink) < MaxSols
          /\ IF res = "error" /\ m_settings.dieOnError
             THEN /\ exited' = TRUE
                  /\ UNCHANGED <<sloc, pc>>
             ELSE /\ sloc' = [sloc EXCEPT !.nonceValid = NonceValid(res),
                                          !.nonce = IF res = "ok" THEN n ELSE 0,
                                          !.axiRes = res]
                  /\ Goto("worker", "s_relock")
                  /\ UNCHANGED exited
    /\ UNCHANGED <<axiMutex, m_new_work, m_dagging, cfgVars, estops, m_lastClk, regs,
                   envVars, wloc, scloc, tel, searchOut, ghostIE, kickOwed>>

ShouldResetOnDecrease(skip, sCnt, lastSCnt) == ~skip /\ sCnt < lastSCnt

\* line 926
ShouldReset(skip, sCnt, lastSCnt) == ~skip /\ sCnt = lastSCnt

\* lines 890-952: relock, sample the counters, hand over the nonce, feed the
\* averager, decide on a stall
S_Sample ==
    /\ Running
    /\ pc["worker"] = "s_relock"
    /\ Lock("worker")
    /\ \E readOk \in BOOLEAN, hw \in SCntVals, d \in TChkDeltas :
          LET skip == m_settings.skipStallDetection
              \* with detection skipped sCnt is never written: any value
              sCnt == IF skip \/ readOk THEN hw ELSE 0
              shouldReset == ShouldReset(skip, sCnt, sloc.lastSCnt)
          IN  /\ (skip => readOk)
              /\ sloc' = [lastSCnt |-> sCnt,
                          iter |-> IF sloc.iter < 2 THEN sloc.iter + 1 ELSE 2,
                          nonceValid |-> FALSE, nonce |-> 0, axiRes |-> "none",
                          exit |-> IF shouldReset THEN "stall" ELSE "none"]
              /\ sink' = IF sloc.nonceValid
                         THEN Append(sink, [nonce |-> sloc.nonce, job |-> wloc.w.id])
                         ELSE sink
              /\ m_hashCounter' = m_hashCounter + d
              /\ Goto("worker", IF shouldReset THEN "s_stop" ELSE "s_loop")
              /\ kickOwed' = IF shouldReset THEN FALSE ELSE kickOwed
    /\ UNCHANGED <<m_new_work, m_dagging, intKicked, exited, cfgVars, estops, m_lastClk,
                   regs, envVars, wloc, scloc, tel, ghostIE>>

\* line 955
S_Stop ==
    /\ Running
    /\ pc["worker"] = "s_stop"
    /\ regs' = StopHashcore(regs)
    /\ Goto("worker", "s_unlock")
    /\ UNCHANGED <<axiMutex, m_new_work, m_dagging, intKicked, exited, cfgVars, estops,
                   m_lastClk, envVars, wloc, sloc, scloc, tel, searchOut, ghostIE,
                   kickOwed>>

\* lines 956-958
S_Unlock ==
    /\ Running
    /\ pc["worker"] = "s_unlock"
    /\ Unlock
    /\ sloc' = SLocInit
    /\ wloc' = [wloc EXCEPT !.w = NoWork]
    /\ sink' = <<>>
    /\ Goto("worker", "wl_top")
    /\ UNCHANGED <<m_new_work, m_dagging, intKicked, exited, cfgVars, estops,
                   m_lastClk, regs, envVars, scloc, tel, m_hashCounter, ghostIE,
                   kickOwed>>

(* ------------------------------ setClock ------------------------------ *)
\* a call of setClock by the worker: the frame, then line 1005
CallSetClock(target, ret) ==
    /\ scloc' = SCFrame(target, ret)
    /\ Goto("worker", "sc_begin")

\* outcomes of the three save-reads (0x5040, 0x5088, 0xB000): TRUE is success
SaveReads(faulty) ==
    IF faulty THEN [nItems : BOOLEAN, rnItems : BOOLEAN, pwr : BOOLEAN]
    ELSE {[nItems |-> TRUE, rnItems |-> TRUE, pwr |-> TRUE]}

\* lines 1047-1057: the read's result is not assigned to err, so the test that
\* follows it sees the err of the read of 0x5040; a failed read that is not
\* zeroed leaves the local as it was on the stack
Saved(firstOk, ok, value, zero, junk) ==
    IF ~firstOk THEN zero ELSE IF ok THEN value ELSE junk

\* lines 1005-1088: read the PLL, save the mining parameters, change the clock
SC_Begin ==
    /\ Running
    /\ pc["worker"] = "sc_begin"
    /\ \E pllOk \in BOOLEAN :
          \* a failed PLL read, or the read-only target -1 (getClock): return
          IF ~pllOk \/ scloc.target = -1
          THEN /\ Goto("worker", scloc.ret)
               /\ scloc' = SCInit
               /\ UNCHANGED <<regs, m_lastClk>>
          ELSE LET d8 == DesiredDiv8(scloc.target)
                   on == [regs EXCEPT !.rB000 = PwrOn]
               IN  /\ \E read \in SaveReads(axiFaulty) :
                       \E rnJunk \in IF read.rnItems THEN {ZeroRecip}
                                      ELSE StackWords,
                          pwrJunk \in IF read.pwr THEN {0} ELSE StackInts :
                         scloc' = [scloc EXCEPT
                           !.nItems = IF read.nItems THEN regs.r5040 ELSE 0,
                           !.rnItems = Saved(read.nItems, read.rnItems,
                                             regs.r5088, ZeroRecip, rnJunk),
                           !.pwr = Saved(read.nItems, read.pwr, regs.rB000, 0,
                                         pwrJunk),
                           !.pre = [nItems |-> regs.r5040,
                                    rnItems |-> regs.r5088, pwr |-> regs.rB000],
                           !.ok = read]
                   /\ IF scloc.target > 0
                      THEN /\ IF d8 < MinDiv8
                              THEN /\ regs' = on
                                   /\ UNCHANGED m_lastClk
                              ELSE /\ regs' = [on EXCEPT !.r8208 = d8]
                                   /\ m_lastClk' = ClockOf(d8)
                           /\ Goto("worker", "sc_poll")
                      ELSE IF scloc.target < -1
                      THEN /\ regs' = [on EXCEPT !.r8208 = StockDiv8]
                           /\ UNCHANGED m_lastClk
                           /\ Goto("worker", "sc_settle")
                      ELSE /\ regs' = on
                           /\ UNCHANGED m_lastClk
                           /\ Goto("worker", "sc_poll")
    /\ UNCHANGED <<axiMutex, m_new_work, m_dagging, intKicked, exited, cfgVars, estops,
                   envVars, wloc, sloc, tel, searchOut, ghostIE, kickOwed>>

\* lines 1082-1087: the 10 ms settle sleep, then the write to 0x8000
SC_Settle ==
    /\ Running
    /\ pc["worker"] = "sc_settle"
    /\ Goto("worker", "sc_poll")
    /\ UNCHANGED <<axiMutex, m_new_work, m_dagging, intKicked, exited, cfgVars, estops,
                   m_lastClk, regs, envVars, wloc, sloc, scloc, tel, searchOut,
                   ghostIE, kickOwed>>

\* lines 1089-1106: the locked-bit poll, then the restore of the saved registers
SC_Poll ==
    /\ Running
    /\ pc["worker"] = "sc_poll"
    /\ regs' = [regs EXCEPT !.r5040 = scloc.nItems, !.r5088 = scloc.rnItems,
                             !.rB000 = scloc.pwr]
    /\ Goto("worker", scloc.ret)
    /\ scloc' = SCInit
    /\ UNCHANGED <<axiMutex, m_new_work, m_dagging, intKicked, exited, cfgVars, estops,
                   m_lastClk, envVars, wloc, sloc, tel, searchOut, ghostIE,
                   kickOwed>>

(* ------------------------- initEpoch_internal -------------------------- *)
NItems(epoch) == 8 + epoch
StatusWord(epoch) == [hi |-> 1, lo |-> epoch]

FastPathWhenForced(word, force, epoch) ==
    /\ word.hi = 1
    /\ force
    /\ word.lo % 65536 = epoch

FastPathAnyEpoch(word, force, epoch) ==
    /\ word.hi = 1
    /\ ~force

\* lines 519-521
FastPath(word, force, epoch) ==
    /\ word.hi = 1
    /\ ~force
    /\ word.lo % 65536 = epoch

\* lines 486-488
IE_Begin ==
    /\ Running
    /\ pc["worker"] = "ie_begin"
    /\ m_dagging' = TRUE
    /\ ie' = IEReset
    /\ CallSetClock(-2, "ie_lock")
    /\ UNCHANGED <<axiMutex, m_new_work, intKicked, exited, cfgVars, estops, m_lastClk,
                   regs, envVars, wloc, sloc, tel, searchOut, genDone, kickOwed>>

\* lines 490-533: lock, stop the core, program the item count, read the status
\* word and take the fast path or not
IE_Lock ==
    /\ Running
    /\ pc["worker"] = "ie_lock"
    /\ \E readOk \in BOOLEAN :
          LET epoch == m_epochContext.epochNumber
              dagStatusWord == IF readOk THEN regs.r40B8 ELSE ZeroWord
              prep == [StopHashcore(regs) EXCEPT
                         !.rB000 = PwrOn,
                         !.r5040 = NItems(epoch),
                         !.r5088 = RecipWord(NItems(epoch))]
          IN  /\ axiMutex = "free"
              /\ ie' = [ie EXCEPT !.read = IF readOk THEN "ok" ELSE "fail",
                                  !.epoch = epoch,
                                  !.word = regs.r40B8,
                                  !.doneBefore = (epoch \in genDone)]
              /\ IF FastPath(dagStatusWord, m_settings.forceDAG, epoch)
                 THEN /\ regs' = [prep EXCEPT !.rB000 = 0]
                      /\ m_dagging' = FALSE
                      /\ axiMutex' = "free"
                      /\ CallSetClock(m_lastClk, "ie_fast_ret")
                 ELSE /\ regs' = prep
                      /\ axiMutex' = "worker"
                      /\ Goto("worker", "ie_regen")
                      /\ UNCHANGED <<m_dagging, scloc>>
    /\ UNCHANGED <<m_new_work, intKicked, exited, cfgVars, estops, m_lastClk, envVars,
                   wloc, sloc, tel, searchOut, genDone, kickOwed>>

\* lines 529-531 and 1221-1228: startTune, return true, current = w
IE_FastRet ==
    /\ Running
    /\ pc["worker"] = "ie_fast_ret"
    /\ wloc' = [w |-> NoWork, current |-> wloc.w.epoch]
    /\ ie' = IEReset
    /\ Goto("worker", "wl_top")
    /\ UNCHANGED <<axiMutex, m_new_work, m_dagging, intKicked, exited, cfgVars, estops,
                   m_lastClk, regs, envVars, sloc, scloc, tel, searchOut, genDone,
                   kickOwed>>

\* lines 540-547: the clock target chosen before generation
RegenClock(curClk, lastClk) == IF curClk < lastClk THEN -2 ELSE lastClk

\* lines 536-547: the generator reset (0xFFFFFFFD, then 0xFFFFFFFF), the clock
IE_Regen ==
    /\ Running
    /\ pc["worker"] = "ie_regen"
    /\ regs' = [[regs EXCEPT !.rB000 = PwrReset] EXCEPT !.rB000 = PwrOn]
    /\ \E pllOk \in BOOLEAN :
          LET curClk == IF pllOk THEN ClockOf(regs.r8208) ELSE 0
          IN  CallSetClock(RegenClock(curClk, m_lastClk), "ie_cache")
    /\ UNCHANGED <<axiMutex, m_new_work, m_dagging, intKicked, exited, cfgVars, estops,
                   m_lastClk, envVars, wloc, sloc, tel, searchOut, ghostIE,
                   kickOwed>>

\* lines 549-567: program and trigger the light-cache generation, enter the poll
IE_Cache ==
    /\ Running
    /\ pc["worker"] = "ie_cache"
    /\ ie' = [ie EXCEPT !.writes = @ \cup {"cacheTrigger"}]
    /\ Unlock
    /\ Goto("worker", "ie_cache_sleep")
    /\ UNCHANGED <<m_new_work, m_dagging, intKicked, exited, cfgVars, estops, m_lastClk,
                   regs, envVars, wloc, sloc, scloc, tel, searchOut, genDone,
                   kickOwed>>

\* lines 566: the poll loops of the pipeline go on while the bit is clear
PollAgain(done, newWork, stop) == ~done

\* lines 566-578: one poll after the 100 ms sleep
IE_CachePoll ==
    /\ Running
    /\ pc["worker"] = "ie_cache_sleep"
    /\ axiMutex = "free"
    /\ \E readOk \in BOOLEAN, bit \in BOOLEAN :
          IF ~readOk /\ m_settings.dieOnError
          THEN /\ exited' = TRUE
               /\ axiMutex' = "worker"
               /\ UNCHANGED <<pc, ie>>
          ELSE /\ UNCHANGED exited
               /\ IF PollAgain(readOk /\ bit, m_new_work, stopReq)
                  THEN /\ ie' = [ie EXCEPT !.resleep = @ \/ kickOwed,
                                           !.tick = 1 - @]
                       /\ UNCHANGED <<axiMutex, pc>>
                  ELSE /\ axiMutex' = "worker"
                       /\ Goto("worker", "ie_mixers")
                       /\ ie' = [ie EXCEPT !.tick = 0]
    /\ UNCHANGED <<m_new_work, m_dagging, intKicked, cfgVars, estops, m_lastClk, regs,
                   envVars, wloc, sloc, scloc, tel, searchOut, genDone, kickOwed>>

\* lines 615-647: mixer ranges, generation start, first status read
IE_Mixers ==
    /\ Running
    /\ pc["worker"] = "ie_mixers"
    /\ \E bit \in BOOLEAN :
          \* a failed first read leaves status unwritten: any value
          /\ ie' = [ie EXCEPT !.writes = @ \cup {"mixerRange", "genStart"},
                              !.genSeen = ~m_settings.skipDAG /\ bit]
          /\ IF m_settings.skipDAG \/ bit
             THEN /\ Goto("worker", "ie_dup")
                  /\ UNCHANGED axiMutex
             ELSE /\ Unlock
                  /\ Goto("worker", "ie_dag_sleep")
    /\ UNCHANGED <<m_new_work, m_dagging, intKicked, exited, cfgVars, estops, m_lastClk,
                   regs, envVars, wloc, sloc, scloc, tel, searchOut, genDone,
                   kickOwed>>

\* lines 646-666: one poll after the 1 s sleep
IE_DagPoll ==
    /\ Running
    /\ pc["worker"] = "ie_dag_sleep"
    /\ axiMutex = "free"
    /\ \E readOk \in BOOLEAN, bit \in BOOLEAN :
          IF ~readOk /\ m_settings.dieOnError
          THEN /\ exited' = TRUE
               /\ axiMutex' = "worker"
               /\ UNCHANGED <<pc, ie>>
          ELSE /\ UNCHANGED exited
               /\ IF PollAgain(readOk /\ bit, m_new_work, stopReq)
                  THEN /\ ie' = [ie EXCEPT !.resleep = @ \/ kickOwed,
                                           !.tick = 1 - @]
                       /\ UNCHANGED <<axiMutex, pc>>
                  ELSE /\ axiMutex' = "worker"
                       /\ ie' = [ie EXCEPT !.genSeen = TRUE, !.tick = 0]
                       /\ Goto("worker", "ie_dup")
    /\ UNCHANGED <<m_new_work, m_dagging, intKicked, cfgVars, estops, m_lastClk, regs,
                   envVars, wloc, sloc, scloc, tel, searchOut, genDone, kickOwed>>

\* lines 676-697: chunk copies up to the first failure, then the copy back
IE_Dup ==
    /\ Running
    /\ pc["worker"] = "ie_dup"
    /\ \E failAt \in {0, DupChunks - 1, DupChunks}, backOk \in BOOLEAN :
          /\ (failAt < DupChunks => backOk)
          /\ ie' = [ie EXCEPT !.writes = @ \cup {"dupCopy"},
                              !.copies = IF failAt < DupChunks THEN failAt + 1
                                         ELSE DupChunks,
                              !.finalCopy = (failAt = DupChunks)]
    /\ Goto("worker", "ie_persist")
    /\ UNCHANGED <<axiMutex, m_new_work, m_dagging, intKicked, exited, cfgVars, estops,
                   m_lastClk, regs, envVars, wloc, sloc, scloc, tel, searchOut,
                   genDone, kickOwed>>

\* lines 701-711: persist the status word, clear busy, power down, restore clock
IE_Persist ==
    /\ Running
    /\ pc["worker"] = "ie_persist"
    /\ \E writeOk \in BOOLEAN :
          LET epoch == m_epochContext.epochNumber
          IN  /\ regs' = [regs EXCEPT
                            !.r40B8 = IF writeOk THEN StatusWord(epoch) ELSE @,
                            !.rB000 = 0]
              /\ genDone' = IF writeOk THEN genDone \cup {epoch} ELSE genDone
    /\ m_dagging' = FALSE
    /\ IF m_lastClk # 0
       THEN CallSetClock(m_lastClk, "ie_unlock")
       ELSE /\ Goto("worker", "ie_unlock")
            /\ UNCHANGED scloc
    /\ UNCHANGED <<axiMutex, m_new_work, intKicked, exited, cfgVars, estops, m_lastClk,
                   envVars, wloc, sloc, tel, searchOut, ie, kickOwed>>

\* lines 713-717 and 1221-1228: unlock, startTune, return true, current = w
IE_Unlock ==
    /\ Running
    /\ pc["worker"] = "ie_unlock"
    /\ Unlock
    /\ wloc' = [w |-> NoWork, current |-> wloc.w.epoch]
    /\ ie' = IEReset
    /\ Goto("worker", "wl_top")
    /\ UNCHANGED <<m_new_work, m_dagging, intKicked, exited, cfgVars, estops, m_lastClk,
                   regs, envVars, sloc, scloc, tel, searchOut, genDone, kickOwed>>

(* ------------- mixer ranges (initEpoch_internal, 617-633) --------------- *)
\* dagSize/64 of the epoch context: empty, smaller than the mixer count, with and
\* without remainder, the size of a 4 GiB DAG and odd sizes near it
DagItemCounts == {0, 1, 5, 7, 64, 1000003, 67108864, 67108864 + 8191,
                  1073741824 + 77}

MixerEndNoLeftover(i, dagPos, mixer_size, leftover) == dagPos + mixer_size

\* lines 628-629
MixerEnd(i, dagPos, mixer_size, leftover) ==
    dagPos + mixer_size + (IF i = 0 THEN leftover ELSE 0)

MixerCall(dagItems, num_mixers) ==
    [op |-> "mixers", dagItems |-> dagItems, num_mixers |-> num_mixers,
     mixer_size |-> dagItems \div num_mixers,
     leftover |-> dagItems - (dagItems \div num_mixers) * num_mixers,
     i |-> 0, dagPos |-> 0, starts |-> <<>>, ends |-> <<>>]

InitMixers ==
    /\ InitMiner({NoFlags}, {400}, MaxWorks)
    /\ \E dagItems \in DagItemCounts, num_mixers \in 1..MaxMixers :
          fn = MixerCall(dagItems, num_mixers)

\* lines 625-632: one iteration of the loop: the writes to 0x400c + 8i and
\* 0x4010 + 8i
MixerLoop ==
    /\ fn.op = "mixers"
    /\ fn.i < fn.num_mixers
    /\ LET mixer_start == fn.dagPos
           mixer_end == MixerEnd(fn.i, fn.dagPos, fn.mixer_size, fn.leftover)
       IN  fn' = [fn EXCEPT !.starts = Append(@, mixer_start),
                            !.ends = Append(@, mixer_end),
                            !.dagPos = mixer_end,
                            !.i = @ + 1]
    /\ UNCHANGED minerVars

NextMixers == MixerLoop
SpecMixers == InitMixers /\ [][NextMixers]_vars

(* ------------ reciprocal (initEpoch_internal, 501-510) ----------------- *)
\* item counts dagSize/128: the small ones, and sizes of real and odd DAGs
ItemCounts == (1..MaxSmallItems) \cup
              {123456, 1048576, 8388593, 16777216, 16777217, 33554399,
               33554432, 50331647}

InitRecip ==
    /\ InitMiner({NoFlags}, {400}, MaxWorks)
    /\ \E nItems \in ItemCounts : fn = [op |-> "recip", nItems |-> nItems]

\* lines 507-509: compute the reciprocal and write it to 0x5088
WriteReciprocal ==
    /\ fn.op = "recip"
    /\ fn' = [op |-> "recip_done", nItems |-> fn.nItems,
              r5088 |-> Reciprocal(fn.nItems)]
    /\ UNCHANGED minerVars

NextRecip == WriteReciprocal
SpecRecip == InitRecip /\ [][NextRecip]_vars

(* ------------- voltage table and VID search (172-206) ------------------ *)
\* line 179 and 183, in units of 10 microvolts:
\* 0.6 + 2.661 / (20 - 2048 / (VID + 153.6))
\*   = 0.6 + 2.661 * (5 VID + 768) / (100 VID + 5120)
VoltageTbl == [VID \in 0..255 |->
                 60000 + (266100 * (5 * VID + 768)) \div (100 * VID + 5120)]

\* requested voltages: every value from below the lowest table entry to above
\* the highest
ReqVoltages == (VoltageTbl[255] - VoltMargin)..(VoltageTbl[0] + VoltMargin)

\* lines 198-204: the loop, half running 0x40, 0x20, ..., 1
RECURSIVE BinarySearch(_, _, _)
BinarySearch(ReqVoltage, idx, half) ==
    IF half = 0 THEN idx
    ELSE IF ReqVoltage < VoltageTbl[idx]
    THEN BinarySearch(ReqVoltage, (idx + half) % 256, half \div 2)
    ELSE IF ReqVoltage > VoltageTbl[idx]
    THEN BinarySearch(ReqVoltage, (idx - half) % 256, half \div 2)
    ELSE idx

\* lines 185-206
FindClosestVIDToVoltage(ReqVoltage) ==
    IF ReqVoltage <= VoltageTbl[255] THEN 255
    ELSE IF ReqVoltage >= VoltageTbl[0] THEN 0
    ELSE BinarySearch(ReqVoltage, 128, 64)

InitVID ==
    /\ InitMiner({NoFlags}, {400}, MaxWorks)
    /\ \E v \in ReqVoltages : fn = [op |-> "vid", ReqVoltage |-> v]

\* a call of FindClosestVIDToVoltage
FindVID ==
    /\ fn.op = "vid"
    /\ fn' = [op |-> "vid_done", ReqVoltage |-> fn.ReqVoltage,
              vid |-> FindClosestVIDToVoltage(fn.ReqVoltage)]
    /\ UNCHANGED minerVars

NextVID == FindVID
SpecVID == InitVID /\ [][NextVID]_vars

(* ------------------------ setVoltage (356-469) ------------------------- *)
upperVoltLimit == 920
lowerVoltLimit == 500

\* requested millivolts: none, far below, around both limits, inside, far above
VoltTargets == {0, 1, 499, 500, 501, 784, 919, 920, 921, 1200}

\* register addresses of the two regulators' IIC controllers: reset, transmit
\* FIFO, send
FKRegs == [reset |-> 36928, fifo |-> 37128, send |-> 37120]
JCRegs == [reset |-> 41024, fifo |-> 41224, send |-> 41216]

\* one IIC transaction: soft reset, the bytes to the FIFO, send
Transaction(r, bytes) ==
    <<[val |-> 10, addr |-> r.reset]>>
        \o [k \in 1..Len(bytes) |-> [val |-> bytes[k], addr |-> r.fifo]]
        \o <<[val |-> 1, addr |-> r.send]>>

\* lines 363 and 387
OutOfBand(mv) == mv <= lowerVoltLimit \/ mv > upperVoltLimit

\* lines 370-382; the table is in units of 10 microvolts
FKSequence(fkVCCINT) ==
    LET tWiper == FindClosestVIDToVoltage(100 * fkVCCINT)
    IN  Transaction(FKRegs, <<344, 0, 512 + tWiper>>)

\* line 452: (uint16_t)(((double)jcVCCINT / 1000.0) * 256.0)
VEnc(jcVCCINT) == ((jcVCCINT * 256) \div 1000) % 65536

\* lines 393-466
JCSequence(jcVCCINT) ==
    LET vEnc == VEnc(jcVCCINT)
    IN  Transaction(JCRegs, <<410, 208, 4, 34, 8, 28, 604,
                              410, 208, 4, 36, 8, 34, 556>>)
        \o Transaction(JCRegs, <<410, 208, 4, 170, 10, 243, 736>>)
        \o Transaction(JCRegs, <<410, 208, 4, 170, 6, 243, 736>>)
        \o Transaction(JCRegs, <<410, 208, 4, 66, 6, vEnc % 256,
                                 512 + ((vEnc \div 256) % 256)>>)

InitVolt ==
    /\ InitMiner({NoFlags}, {400}, MaxWorks)
    /\ \E fk \in VoltTargets, jc \in VoltTargets :
          fn = [op |-> "volt_fk", fkVCCINT |-> fk, jcVCCINT |-> jc,
                writes |-> <<>>]

\* lines 361-384
SV_FK ==
    /\ fn.op = "volt_fk"
    /\ fn' = [fn EXCEPT
                !.op = "volt_jc",
                !.writes = IF fn.fkVCCINT # 0 /\ ~OutOfBand(fn.fkVCCINT)
                           THEN @ \o FKSequence(fn.fkVCCINT) ELSE @]
    /\ UNCHANGED minerVars

\* lines 385-468
SV_JC ==
    /\ fn.op = "volt_jc"
    /\ fn' = [fn EXCEPT
                !.op = "volt_done",
                !.writes = IF fn.jcVCCINT # 0 /\ ~OutOfBand(fn.jcVCCINT)
                           THEN @ \o JCSequence(fn.jcVCCINT) ELSE @]
    /\ UNCHANGED minerVars

NextVolt == SV_FK \/ SV_JC
SpecVolt == InitVolt /\ [][NextVolt]_vars

(* ------------------- search: the boundary (760-763) -------------------- *)
\* a 256-bit hash, most significant byte first: four leading bytes and 28
\* equal trailing bytes
Hash(lead, t) == lead \o [j \in 1..28 |-> t]

\* line 760: 0x0000001fff...ff
falseTarget == Hash(<<0, 0, 0, 31>>, 255)

LeadBytes == {0, 31, 32, 255}
Boundaries == {Hash(<<a, b, c, d>>, t) :
                  a \in LeadBytes, b \in LeadBytes, c \in LeadBytes,
                  d \in LeadBytes, t \in {0, 254, 255}}

\* line 761: h256's operator> compares the bytes from the most significant
HashGreater(x, y) ==
    \E i \in 1..Len(x) : x[i] > y[i] /\ \A j \in 1..(i - 1) : x[j] = y[j]

\* lines 760-761: if (w.boundary > falseTarget) falseTarget = w.boundary;
EffectiveTarget(boundary) ==
    IF HashGreater(boundary, falseTarget) THEN boundary ELSE falseTarget

InitTarget ==
    /\ InitMiner({NoFlags}, {400}, MaxWorks)
    /\ \E b \in Boundaries : fn = [op |-> "target", boundary |-> b]

\* line 762: the 32 bytes written to 0x5020
ProgramTarget ==
    /\ fn.op = "target"
    /\ fn' = [op |-> "target_done", boundary |-> fn.boundary,
              r5020 |-> EffectiveTarget(fn.boundary)]
    /\ UNCHANGED minerVars

NextTarget == ProgramTarget
SpecTarget == InitTarget /\ [][NextTarget]_vars

(* ----------------- search: the control word (771-790) ------------------ *)
\* patience and intensity as configured and as the auto-tuner overrides them
Tunings == [patience : {0, 1}, intensityN : {0, 8}, intensityD : {0, 1, 40}]
NotSet == [set |-> FALSE, patience |-> 0, intensityN |-> 0, intensityD |-> 0]
\* line 772: what m_tuner->getIntensitySettings() may return
IntensitySettings ==
    {NotSet} \cup {[set |-> TRUE, patience |-> t.patience,
                    intensityN |-> t.intensityN, intensityD |-> t.intensityD] :
                      t \in Tunings}

\* the word written to 0x5080, by its fields: bit 0, bit 6, bits 8-15,
\* bits 16-23, bits 24-31
NoFlagsWord == [b0 |-> 0, b6 |-> 0, patience |-> 0, d |-> 0, n |-> 0]

\* lines 781-789; ((intensityD & 0x3F) * 8 - 1) << 16 reaches into bits 24-31
\* when the denominator field is 0 or above 32
Flags(s) ==
    LET dval == (s.intensityD % 64) * 8 - 1
        nval == s.intensityN % 256
        carry == dval \div 256
    IN  [b0 |-> IF s.intensityN # 0 THEN 1 ELSE 0,
         b6 |-> IF s.patience # 0 THEN 1 ELSE 0,
         patience |-> IF s.patience # 0 THEN s.patience % 256 ELSE 0,
         d |-> IF s.intensityN = 0 THEN 0
               ELSE IF dval < 0 THEN 255 ELSE dval % 256,
         n |-> IF s.intensityN = 0 THEN 0
               ELSE IF dval < 0 THEN 255
               ELSE IF carry = 1 /\ nval % 2 = 0 THEN nval + 1 ELSE nval]

InitFlags ==
    /\ InitMiner({NoFlags}, {400}, MaxWorks)
    /\ \E t \in Tunings :
          fn = [op |-> "flags", static |-> t, m_settings |-> t, calls |-> 0,
                intensSet |-> NotSet, r5080 |-> NoFlagsWord]

\* lines 771-790 of one search invocation
SearchFlags ==
    /\ fn.op = "flags"
    /\ fn.calls < MaxCalls
    /\ \E intensSet \in IntensitySettings :
          LET used == IF intensSet.set
                      THEN [patience |-> intensSet.patience,
                            intensityN |-> intensSet.intensityN,
                            intensityD |-> intensSet.intensityD]
                      ELSE fn.m_settings
          IN  fn' = [fn EXCEPT !.m_settings = used, !.calls = @ + 1,
                               !.intensSet = intensSet,
                               !.r5080 = Flags(used)]
    /\ UNCHANGED minerVars

NextFlags == SearchFlags
SpecFlags == InitFlags /\ [][NextFlags]_vars

(* -------------------- DAG duplication (676-697) ------------------------ *)
\* addresses are counted in chunks of 0x1000000 bytes (16 MiB)
\* line 679: src = 0x100000000 | (i << 24)
StagingChunk(i) == DupChunks + i

SwapNibblesIdentity(i) == i
\* line 680: ((i & 0x0f) << 4) | ((i & 0xF0) >> 4)
SwapNibbles(i) == (i % 16) * 16 + ((i \div 16) % 16)

InitDup ==
    /\ InitMiner({NoFlags}, {400}, MaxWorks)
    /\ fn = [op |-> "dup", i |-> 0, copies |-> <<>>, err |-> 0,
             copyBack |-> FALSE]

\* lines 678-690: one iteration of the loop
DupChunk ==
    /\ fn.op = "dup"
    /\ fn.i < DupChunks
    /\ \E ok \in BOOLEAN :
          fn' = [fn EXCEPT
                   !.copies = Append(@, [src |-> StagingChunk(fn.i),
                                         dst |-> SwapNibbles(fn.i),
                                         ok |-> ok]),
                   !.err = IF ok THEN 0 ELSE 1,
                   !.i = IF ok THEN @ + 1 ELSE @,
                   !.op = IF ok /\ fn.i + 1 < DupChunks THEN "dup"
                          ELSE "dup_after"]
    /\ UNCHANGED minerVars

\* lines 691-697: the copy of the whole image back to the staging range
DupCopyBack ==
    /\ fn.op = "dup_after"
    /\ IF fn.err = 0
       THEN \E ok \in BOOLEAN :
               fn' = [fn EXCEPT !.copyBack = TRUE,
                                !.err = IF ok THEN 0 ELSE 1,
                                !.op = "dup_done"]
       ELSE fn' = [fn EXCEPT !.op = "dup_done"]
    /\ UNCHANGED minerVars

NextDup == DupChunk \/ DupCopyBack
SpecDup == InitDup /\ [][NextDup]_vars

(* ------------- light-cache upload in 64 KiB chunks (582-614) ----------- *)
\* lines 591-596: a chunk is lost when the write and its one retry fail
UploadFailedNoRetry(first, retry) == ~first
UploadFailed(first, retry) == ~first /\ ~retry

\* the block is entered with a cache of 0..MaxChunks chunks, under the lock
\* taken at line 490
InitUpload ==
    \E n \in 0..MaxChunks :
        fn = [op |-> "upload", chunks |-> n, pos |-> 0, tries |-> <<>>,
              uploadFailed |-> FALSE, result |-> "running", held |-> TRUE]

\* lines 590-600: one iteration of the loop
UploadChunk ==
    /\ fn.op = "upload"
    /\ ~fn.uploadFailed
    /\ fn.pos < fn.chunks
    /\ \E first \in BOOLEAN, retry \in BOOLEAN :
          fn' = [fn EXCEPT
                   !.tries = Append(@, IF first THEN <<TRUE>>
                                       ELSE <<FALSE, retry>>),
                   !.uploadFailed = UploadFailed(first, retry),
                   !.pos = IF UploadFailed(first, retry) THEN @ ELSE @ + 1]
    /\ UNCHANGED minerVars

\* lines 601-614: after a lost chunk unlock (611) and return false, go on to
\* the DAG parameters otherwise
UploadEnd ==
    /\ fn.op = "upload"
    /\ fn.uploadFailed \/ fn.pos = fn.chunks
    /\ fn' = [fn EXCEPT !.op = "upload_done",
                        !.held = ~fn.uploadFailed,
                        !.result = IF fn.uploadFailed THEN "false"
                                   ELSE "continue"]
    /\ UNCHANGED minerVars

NextUpload == UploadChunk \/ UploadEnd

(* ------- the die-on-error sites (573-575, 655-657, 791-795, 884-888) --- *)
\* the register operations whose failure is checked against dieOnError: the
\* light-cache and DAG status polls, the control-word write, the interrupt wait
DieSites == {"read 0x40BC", "read 0x4000", "write 0x5080", "wait interrupt"}

InitDie ==
    /\ InitMiner({NoFlags}, {400}, MaxWorks)
    /\ \E die \in BOOLEAN :
          fn = [op |-> "ops", dieOnError |-> die, n |-> 0, fails |-> 0,
                site |-> "none", ok |-> TRUE, exited |-> FALSE]

\* one of the operations and the test that follows it:
\* if (err != 0 && m_settings.dieOnError) exit(1);
RegisterOp ==
    /\ fn.op = "ops"
    /\ ~fn.exited
    /\ fn.n < MaxOps
    /\ \E site \in DieSites, ok \in BOOLEAN :
          fn' = [fn EXCEPT !.n = @ + 1,
                           !.fails = IF ok THEN @ ELSE @ + 1,
                           !.site = site,
                           !.ok = ok,
                           !.exited = ~ok /\ fn.dieOnError]
    /\ UNCHANGED minerVars

NextDie == RegisterOp
SpecDie == InitDie /\ [][NextDie]_vars

(* ------------------ StopHashcore's ramp (213-245) ---------------------- *)
\* line 227: int step = ceil((double)inn / 8.0)
RampStep(inn) == (inn + 7) \div 8

\* lines 228-236: the intensity fields written to 0x5080, first by the loop,
\* then the field 0 when the loop left inn below 0
RECURSIVE Ramp(_, _)
Ramp(inn, step) ==
    IF inn > 0 THEN <<inn>> \o Ramp(inn - step, step)
    ELSE IF inn # 0 THEN <<0>>
    ELSE <<>>

InitStop ==
    /\ InitMiner({NoFlags}, {400}, MaxWorks)
    /\ \E i \in 0..255, readOk \in BOOLEAN :
          fn = [op |-> "stop", inn |-> i, readOk |-> readOk, r5080 |-> <<>>,
                r506c |-> <<>>]

\* lines 222-241: StopHashcore(true); r5080 and r506c collect the writes
StopSoft ==
    /\ fn.op = "stop"
    /\ fn' = [fn EXCEPT !.op = "stop_done",
                        !.r5080 = IF fn.readOk
                                  THEN Ramp(fn.inn, RampStep(fn.inn))
                                  ELSE <<>>,
                        !.r506c = <<0>>]
    /\ UNCHANGED minerVars

NextStop == StopSoft
SpecStop == InitStop /\ [][NextStop]_vars

(* --------------- processHashrateAverages (959-995) --------------------- *)
\* target checks are counted in thousands, the one-minute average in hashes
\* per second; the reporting unit of line 970 is 10^6 hashes per second
Unit == 1000000
\* deltas of a call: nothing, one minute at exactly 10, at 50 and at exactly
\* 100 units
Deltas == {0, 600000, 3000000, 6000000}
\* seconds between two calls
Waits == {30, 31}
\* line 970: m_hashCounter / 60, for a counter held in thousands
PerSecond(counter) == (50 * counter) \div 3

AcceptInclusive(avg) == avg >= 10 * Unit /\ avg <= 100 * Unit
\* line 973: avg1min > 10 && avg1min < 100
Accept(avg) == avg > 10 * Unit /\ avg < 100 * Unit

\* line 968: elapsedSeconds > 60
FlushDue(elapsedSeconds) == elapsedSeconds > 60

\* lines 978-982: erase the front when the size exceeds the capacity
PopFront(v, capacity) == IF Len(v) > capacity THEN Tail(v) ELSE v

\* the histories after n accepted samples
Samples(n) == [k \in 1..n |-> 20 * Unit + k]
LastOf(v, capacity) ==
    IF Len(v) <= capacity THEN v
    ELSE SubSeq(v, Len(v) - capacity + 1, Len(v))

InitAvg ==
    /\ InitMiner({NoFlags}, {400}, MaxWorks)
    /\ \E n \in {0, 9, 10, 59, 60}, e \in {0, 61} :
          fn = [op |-> "avg", m_hashCounter |-> 0, elapsed |-> e,
                m_10minHashAvg |-> LastOf(Samples(n), 10),
                m_60minHashAvg |-> LastOf(Samples(n), 60),
                avg1min |-> 0, calls |-> 0, newTcks |-> 0, wait |-> 0,
                flushed |-> FALSE]

\* lines 959-995: one call, made some seconds after the previous one
ProcessHashrateAverages ==
    /\ fn.op = "avg"
    /\ fn.calls < MaxAvgCalls
    /\ \E newTcks \in Deltas, wait \in Waits :
          LET counter == fn.m_hashCounter + newTcks
              elapsedSeconds == fn.elapsed + wait
              avg1min == PerSecond(counter)
              pushed10 == IF Accept(avg1min)
                          THEN Append(fn.m_10minHashAvg, avg1min)
                          ELSE fn.m_10minHashAvg
              pushed60 == IF Accept(avg1min)
                          THEN Append(fn.m_60minHashAvg, avg1min)
                          ELSE fn.m_60minHashAvg
          IN  IF FlushDue(elapsedSeconds)
              THEN fn' = [fn EXCEPT
                            !.m_10minHashAvg = PopFront(pushed10, 10),
                            !.m_60minHashAvg = PopFront(pushed60, 60),
                            !.avg1min = avg1min,
                            !.m_hashCounter = 0,
                            !.elapsed = 0,
                            !.calls = @ + 1,
                            !.newTcks = newTcks,
                            !.wait = wait,
                            !.flushed = TRUE]
              ELSE fn' = [fn EXCEPT !.m_hashCounter = counter,
                                    !.elapsed = elapsedSeconds,
                                    !.calls = @ + 1,
                                    !.newTcks = newTcks,
                                    !.wait = wait,
                                    !.flushed = FALSE]
    /\ UNCHANGED minerVars

NextAvg == ProcessHashrateAverages
SpecAvg == InitAvg /\ [][NextAvg]_vars

(* ---------------------------- getTelemetry ----------------------------- *)
\* lines 1136-1139: the four fields of the stack-health word
UnsafeWord(raw) ==
    \/ raw % 2 = 0
    \/ (raw \div 2) % 2 = 0
    \/ (raw \div 4) % 2 = 1
    \/ (raw \div 1024) % 2 = 1

EmergencyCondLeftOnly(raw) ==
    \/ Bit(raw, 2) = 1
    \/ Bit(raw, 10) = 1
    \/ Bit(raw, 0) = 0

\* line 1174
EmergencyCond(raw) ==
    \/ Bit(raw, 2) = 1
    \/ Bit(raw, 10) = 1
    \/ Bit(raw, 0) = 0
    \/ Bit(raw, 1) = 0

\* line 1116
T_Lock ==
    /\ Running
    /\ pc["telemetry"] = "t_idle"
    /\ Lock("telemetry")
    /\ Goto("telemetry", "t_read")
    /\ UNCHANGED <<m_new_work, m_dagging, intKicked, exited, cfgVars, estops, m_lastClk,
                   regs, envVars, wloc, sloc, scloc, tel, searchOut, ghostIE,
                   kickOwed>>

\* lines 1117-1174: the reads under the lock, the unlock, the decision
T_Read ==
    /\ Running
    /\ pc["telemetry"] = "t_read"
    /\ Unlock
    /\ \E readOk \in BOOLEAN, hw \in HealthWords :
          LET raw == IF readOk THEN hw ELSE HealthDefault
          IN  /\ tel' = [raw |-> raw]
              /\ estops' = IF UnsafeWord(raw) THEN estops + 1 ELSE estops
              /\ estops' <= MaxEstops
              /\ Goto("telemetry", IF EmergencyCond(raw) THEN "t_estop"
                                                          ELSE "t_ret")
    /\ UNCHANGED <<m_new_work, m_dagging, intKicked, exited, cfgVars, m_lastClk,
                   regs, envVars, wloc, sloc, scloc, searchOut, ghostIE, kickOwed>>

\* lines 1187-1188: the remaining fields, the return
T_Return ==
    /\ Running
    /\ pc["telemetry"] = "t_ret"
    /\ tel' = TelInit
    /\ Goto("telemetry", "t_idle")
    /\ UNCHANGED <<axiMutex, m_new_work, m_dagging, intKicked, exited, cfgVars, estops,
                   m_lastClk, regs, envVars, wloc, sloc, scloc, searchOut, ghostIE,
                   kickOwed>>

\* lines 1175-1184: stop the core, power down the generator
T_Estop ==
    /\ Running
    /\ pc["telemetry"] = "t_estop"
    /\ regs' = [StopHashcore(regs) EXCEPT !.rB000 = 0]
    /\ Goto("telemetry", "t_refuse")
    /\ UNCHANGED <<axiMutex, m_new_work, m_dagging, intKicked, exited, cfgVars, estops,
                   m_lastClk, envVars, wloc, sloc, scloc, tel, searchOut, ghostIE,
                   kickOwed>>

\* lines 1185-1186: m_dagging = true, then kick_miner()
T_Refuse ==
    /\ Running
    /\ pc["telemetry"] = "t_refuse"
    /\ m_dagging' = TRUE
    /\ kick_miner(TRUE)
    /\ tel' = TelInit
    /\ Goto("telemetry", "t_idle")
    /\ UNCHANGED <<axiMutex, exited, cfgVars, estops, m_lastClk, regs, envVars,
                   wloc, sloc, scloc, searchOut, ghostIE>>

(* --------------------------- specification ----------------------------- *)
Farm == (\E e \in Epochs : NewWork(e)) \/ StopRequest
WorkLoop == WL_Init \/ WL_Top
InitEpoch == IE_Begin \/ IE_Lock \/ IE_FastRet \/ IE_Regen \/ IE_Cache
             \/ IE_CachePoll \/ IE_Mixers \/ IE_DagPoll \/ IE_Dup \/ IE_Persist
             \/ IE_Unlock
SetClock == SC_Begin \/ SC_Settle \/ SC_Poll
Search == S_Entry \/ S_Program \/ S_Loop \/ S_Wait \/ S_Sample \/ S_Stop
          \/ S_Unlock
Telemetry == T_Lock \/ T_Read \/ T_Return \/ T_Estop \/ T_Refuse

Next == Farm \/ WorkLoop \/ InitEpoch \/ SetClock \/ Search \/ Telemetry

Spec == Init /\ [][Next]_vars
SpecEpochs == InitEpochs /\ [][Next]_vars

\* the default configuration with both threads scheduled: the telemetry
\* thread always finishes getTelemetry, the worker gets the lock again and
\* again
InitPolls == InitWith({NoFlags}, {400}, MaxWorks)
ThreadsRun ==
    /\ WF_vars(Telemetry)
    /\ SF_vars(WorkLoop \/ InitEpoch \/ SetClock \/ Search)
SpecSave == InitSave /\ [][Next]_vars
SpecClocks == InitClocks /\ [][Next]_vars
SpecStatus == InitStatus /\ [][Next]_vars
SpecPolls == InitPolls /\ [][Next]_vars /\ ThreadsRun

\* initEpoch_internal as a whole: the worker with the on-chip cache stage the
\* build selects (line 550), die-on-error off, one work package, next to the
\* bulk-upload block of the else branch
\* the device found holding a valid DAG of epoch 1
InitReturn ==
    /\ InitDevice({NoFlags}, {400}, 1, {[hi |-> 1, lo |-> 65536 + 1]}, {FALSE})
    /\ InitUpload
NextReturn == Next \/ NextUpload
SpecReturn == InitReturn /\ [][NextReturn]_vars

\* the locking of both threads over every configuration. The bulk-upload
\* block shares no variable with the threads: it is run to its end first,
\* then the threads of the build run
InitLocks ==
    /\ InitMiner(Configs, {400}, MaxWorks)
    /\ InitUpload
UploadReturn ==
    /\ fn.op = "upload_done"
    /\ fn' = FnIdle
    /\ UNCHANGED minerVars
Threads ==
    /\ fn = FnIdle
    /\ Next
NextLocks == UploadChunk \/ UploadEnd \/ UploadReturn \/ Threads
SpecLocks == InitLocks /\ [][NextLocks]_vars

TypeOK ==
    /\ axiMutex \in {"free", "worker", "telemetry"}
    /\ m_new_work \in BOOLEAN
    /\ m_dagging \in BOOLEAN
    /\ regs.r506c \in {0, CoreEnable}
    /\ Len(sink) <= MaxSols
    /\ workSeq \in 0..workBudget
    /\ estops \in 0..MaxEstops

(* ------------------------------- claims -------------------------------- *)
\* positions from which the next step of the thread issues register reads or
\* writes without taking the lock in that step
WorkerAccessPCs == {"sc_begin", "sc_settle", "sc_poll", "ie_regen", "ie_cache",
                    "ie_mixers", "ie_dup", "ie_persist", "s_stop"}
TelemetryAccessPCs == {"t_read", "t_estop"}
\* positions at which the worker is blocked on a hardware-driven condition
BlockedPCs == {"ie_cache_sleep", "ie_dag_sleep", "s_wait", "sc_settle",
               "sc_poll"}
\* the writes that make up a generation
GenWrites == {"cacheTrigger", "mixerRange", "genStart", "dupCopy"}

WorkerStep(from) == pc["worker"] = from /\ pc'["worker"] # from
TelemetryStep(from) == pc["telemetry"] = from /\ pc'["telemetry"] # from

\* C1 (as stated): every register access of the epoch pipeline (its setClock
\* calls included), of Search and of the telemetry monitor (its emergency
\* stop included) is issued by a thread that holds axiMutex.
C1_AccessUnderLock ==
    Running =>
        /\ pc["worker"] \in WorkerAccessPCs => axiMutex = "worker"
        /\ pc["telemetry"] \in TelemetryAccessPCs => axiMutex = "telemetry"

\* C2 (as stated): once a full generation for epoch E has persisted the status
\* word, any later call for E with forceDAG unset and a successful status read
\* issues none of the generation writes.
C2_AnyLaterCallSkipsGeneration ==
    (ie.read = "ok" /\ ie.doneBefore /\ ~m_settings.forceDAG)
        => ie.writes \cap GenWrites = {}

\* C2 (amended): once a full generation for epoch E has persisted the status
\* word, a later call for E with forceDAG unset and a successful status read
\* issues none of the generation writes as long as the status word still names
\* E, that is, no other epoch's status word was persisted in between; a call
\* returns early only when the word it read is valid and names its epoch.
C2_LaterCallSkipsWhileWordNamesEpoch ==
    /\ (ie.read = "ok" /\ ie.doneBefore /\ ~m_settings.forceDAG
            /\ ie.word = StatusWord(ie.epoch))
         => ie.writes \cap GenWrites = {}
    /\ pc["worker"] = "ie_fast_ret"
         => (ie.read = "ok" /\ ie.word = StatusWord(ie.epoch)
             /\ ~m_settings.forceDAG)

C2_Witness ==
    /\ pc["worker"] = "ie_fast_ret"
    /\ ie.read = "ok"
    /\ ie.doneBefore
    /\ ie.word = StatusWord(ie.epoch)
    /\ ie.writes = {}
    /\ Cardinality(genDone) = 1

\* C3 (as stated): while the device is marked busy no Search invocation
\* programs work and enables the hashing core.
C3_NoSearchWhileBusy ==
    [][WorkerStep("s_program") /\ pc'["worker"] = "s_loop" => ~m_dagging]_vars

\* C4: the emergency stop (core stopped, 0 written to the generator power
\* register, busy flag set, kick_miner called) is performed exactly when the
\* stack-health word has a catastrophic bit set or a calibration-OK bit clear;
\* a healthy word, the read-failure default included, is returned without it.
C4_EmergencyStopIffUnsafe ==
    [][/\ TelemetryStep("t_read")
            => pc'["telemetry"] = IF UnsafeWord(tel'.raw) THEN "t_estop"
                                                           ELSE "t_ret"
       /\ TelemetryStep("t_ret")
            => /\ pc'["telemetry"] = "t_idle"
               /\ UNCHANGED <<regs, m_dagging, m_new_work, intKicked>>
       /\ TelemetryStep("t_estop")
            => /\ pc'["telemetry"] = "t_refuse"
               /\ regs'.r506c = 0
               /\ regs'.rB000 = 0
       /\ TelemetryStep("t_refuse")
            => /\ pc'["telemetry"] = "t_idle"
               /\ m_dagging'
               /\ m_new_work']_vars

\* right catastrophic bit alone: the stop has been issued
C4_Witness ==
    /\ pc["telemetry"] = "t_refuse"
    /\ tel.raw = 1027
    /\ regs.r506c = 0
    /\ regs.rB000 = 0

\* C5 (as stated): the kick_miner call of an emergency stop kicks the
\* interrupt wait in which the Search loop is parked.
C5_EmergencyStopKicksWait ==
    [][TelemetryStep("t_refuse") /\ pc["worker"] = "s_wait" => intKicked']_vars

\* C6 (as stated): a kick_miner call made after the worker fetched its work
\* package makes that search invocation leave its loop at the next loop
\* boundary.
C6_NoKickLost ==
    [][WorkerStep("s_loop") /\ kickOwed => pc'["worker"] = "s_stop"]_vars

\* C7: with stall detection enabled, an iteration whose stall-counter sample
\* equals the previous iteration's hands over its nonce and ends the loop, and
\* search goes to the soft stop and returns without another wait or sample;
\* with stall detection disabled no sample ends the loop.
C7_StallEndsSearch ==
    [][/\ WorkerStep("s_relock")
            => /\ (~m_settings.skipStallDetection /\ sloc.iter >= 1
                     /\ sloc'.lastSCnt = sloc.lastSCnt)
                  => /\ pc'["worker"] = "s_stop"
                     /\ sloc.nonceValid
                          => sink' = Append(sink, [nonce |-> sloc.nonce,
                                                   job |-> wloc.w.id])
               /\ m_settings.skipStallDetection => pc'["worker"] = "s_loop"
       /\ WorkerStep("s_stop") => pc'["worker"] = "s_unlock"
       /\ WorkerStep("s_unlock") => pc'["worker"] = "wl_top"]_vars

\* a stall found in the second or a later iteration
C7_Witness ==
    /\ pc["worker"] = "s_stop"
    /\ sloc.exit = "stall"
    /\ sloc.iter = 2
    /\ ~m_settings.skipStallDetection

\* C8: search leaves its loop only to the soft stop, which writes 0 to core
\* control while the lock is held and before it is released, and search
\* returns only from there, with the core stopped and the lock released.
C8_SoftStopBeforeUnlock ==
    [][/\ (pc["worker"] \in {"s_loop", "s_relock"}
             /\ pc'["worker"] \notin {"s_loop", "s_wait", "s_relock"})
            => pc'["worker"] = "s_stop" /\ axiMutex' = "worker"
       /\ WorkerStep("s_stop")
            => /\ axiMutex = "worker"
               /\ axiMutex' = "worker"
               /\ regs'.r506c = 0
               /\ pc'["worker"] = "s_unlock"
       /\ (pc["worker"] \in SearchPCs /\ pc'["worker"] \notin SearchPCs)
            => /\ pc["worker"] = "s_unlock"
               /\ regs.r506c = 0
               /\ axiMutex = "worker"
               /\ axiMutex' = "free"]_vars

\* the soft stop issued after new work ended the loop
C8_Witness ==
    /\ pc["worker"] = "s_unlock"
    /\ sloc.exit = "newwork"
    /\ regs.r506c = 0
    /\ axiMutex = "worker"

\* C9 (as stated): the worker does not hold the lock while it is blocked in a
\* poll sleep of the epoch pipeline, in the interrupt wait, or in the settle
\* sleep or locked-bit poll of setClock.
C9_NoLockWhileBlocked ==
    Running => (pc["worker"] \in BlockedPCs => axiMutex # "worker")

\* C10 (as stated): a shutdown or new-work signal raised while the epoch
\* pipeline is in a poll loop is observed at the next poll boundary: the
\* pipeline does not go back to sleep with the signal pending.
C10_PollObservesSignal == ~ie.resleep

\* C11 (as stated): with die-on-error off every status-bit poll is bounded, so
\* an epoch pipeline that entered a poll loop leaves it even if the awaited
\* bit is never observed.
C11_PollsEnd ==
    (pc["worker"] \in PollPCs /\ ~m_settings.dieOnError)
        ~> (pc["worker"] \notin PollPCs)


\* C12: initEpoch_internal takes the fast path (0 to 0xB000, return through the
\* clock restore, no generation write, no status persist) exactly when the
\* status read succeeded, bit 31 of the word is set, its low 16 bits equal the
\* requested epoch and forceDAG is unset; in every other case (a failed read, or
\* forceDAG over a matching word, included) the call goes on to regenerate.
FastFrame ==
    \/ pc["worker"] = "ie_fast_ret"
    \/ pc["worker"] \in {"sc_begin", "sc_settle", "sc_poll"}
          /\ scloc.ret = "ie_fast_ret"

C12_FastPathIff ==
    [][/\ WorkerStep("ie_lock") =>
            LET fast == /\ ie'.read = "ok"
                        /\ ie'.word.hi = 1
                        /\ ie'.word.lo % 65536 = ie'.epoch
                        /\ ~m_settings.forceDAG
            IN  /\ fast => /\ FastFrame'
                           /\ regs'.rB000 = 0
                           /\ ~m_dagging'
                           /\ ie'.writes = {}
                /\ ~fast => /\ pc'["worker"] = "ie_regen"
                            /\ regs'.rB000 = PwrOn
                            /\ m_dagging'
       /\ FastFrame => /\ regs'.r40B8 = regs.r40B8
                       /\ ie'.writes = {}
                       /\ pc'["worker"] \notin {"ie_regen", "ie_cache", "ie_mixers",
                                                 "ie_dup", "ie_persist"} \cup PollPCs
       /\ pc["worker"] = "ie_regen" /\ pc'["worker"] = "sc_begin" =>
            scloc'.ret = "ie_cache"]_vars

\* a fast path taken over a found word with bits set above the epoch field
C12_Witness ==
    /\ pc["worker"] = "ie_fast_ret"
    /\ ie.read = "ok"
    /\ ie.word = [hi |-> 1, lo |-> 65536 + 1]
    /\ ie.epoch = 1

\* C13 (as stated): in the full pipeline the last clock-changing operation before
\* the light-cache trigger (and so before the generation start) is the reset to
\* the baseline clock: the setClock call that returns into the light-cache
\* stage never programs a target divisor.
C13_BaselineBeforeGeneration ==
    [][(/\ pc["worker"] = "sc_begin"
        /\ scloc.ret = "ie_cache"
        /\ pc'["worker"] = "sc_poll")
          => ~(scloc.target > 0 /\ regs'.r8208 = DesiredDiv8(scloc.target))]_vars

\* C14: when the mixer loop has run for dagItems items and m >= 1 mixers, the
\* programmed ranges start at 0, are contiguous, end at dagItems, every mixer
\* after the first holds floor(dagItems / m) items and mixer 0 holds
\* floor(dagItems / m) + (dagItems mod m).
C14_MixerPartition ==
    (fn.op = "mixers" /\ fn.i = fn.num_mixers) =>
        LET m == fn.num_mixers
            size(k) == fn.ends[k] - fn.starts[k]
        IN  /\ Len(fn.starts) = m /\ Len(fn.ends) = m
            /\ fn.starts[1] = 0
            /\ \A k \in 1..(m - 1) : fn.starts[k + 1] = fn.ends[k]
            /\ fn.ends[m] = fn.dagItems
            /\ \A k \in 2..m : size(k) = fn.dagItems \div m
            /\ size(1) = (fn.dagItems \div m) + (fn.dagItems % m)

\* a finished loop over several mixers and a size they do not divide
C14_Witness ==
    /\ fn.op = "mixers"
    /\ fn.i = fn.num_mixers
    /\ fn.num_mixers = 3
    /\ fn.dagItems = 67108864 + 8191
    /\ fn.ends[1] - fn.starts[1] = fn.ends[2] - fn.starts[2] + 2

\* the bits of a word as a number of the given width (zeros in front)
Widen(bits, width) == [j \in 1..(width - Len(bits)) |-> 0] \o bits

\* C15 (as stated): the word written to 0x5088 for item count N is
\* floor(2^60 / N) >> 4 exactly, nothing being lost to the 32-bit width of the
\* word.
C15_ReciprocalExact ==
    fn.op = "recip_done" =>
        Widen(fn.r5088, ScaleBits + 1 - ShiftBits)
            = QuotBits(fn.nItems, ScaleBits - ShiftBits)

Dist(a, b) == IF a >= b THEN a - b ELSE b - a

\* C16 (as stated): FindClosestVIDToVoltage returns an index whose table entry
\* is as close to the requested voltage as any entry of the table (the result
\* of a linear scan, up to ties); a request at or below the last entry gives
\* 255, one at or above the first gives 0.
C16_ClosestVID ==
    fn.op = "vid_done" =>
        /\ \A i \in 0..255 :
              Dist(VoltageTbl[fn.vid], fn.ReqVoltage)
                  <= Dist(VoltageTbl[i], fn.ReqVoltage)
        /\ fn.ReqVoltage <= VoltageTbl[255] => fn.vid = 255
        /\ fn.ReqVoltage >= VoltageTbl[0] => fn.vid = 0

\* the writes of a setVoltage call that went to the registers of one regulator
RailWrites(r) ==
    SelectSeq(fn.writes, LAMBDA w : w.addr \in {r.reset, r.fifo, r.send})

\* C17 (as stated): each rail on its own: a target of 0 issues no write for the
\* rail, a nonzero target in the band 500..920 mV, both ends included, issues
\* the rail's programming sequence, a nonzero target outside issues no write
\* for it; the other rail is processed all the same.
C17_VoltageBand ==
    LET RailServed(r, mv) ==
            IF mv # 0 /\ mv >= 500 /\ mv <= 920
            THEN /\ RailWrites(r) # <<>>
                 /\ RailWrites(r)[Len(RailWrites(r))] = [val |-> 1, addr |-> r.send]
            ELSE RailWrites(r) = <<>>
    IN  /\ fn.op = "volt_done" => /\ RailServed(FKRegs, fn.fkVCCINT)
                                  /\ RailServed(JCRegs, fn.jcVCCINT)
        /\ fn.op = "volt_jc" => RailServed(FKRegs, fn.fkVCCINT)
\* the step of setClock that programs the divisor for a target above 0
AcceptedStep ==
    /\ pc["worker"] = "sc_begin"
    /\ pc'["worker"] = "sc_poll"
    /\ scloc.target > 0
    /\ DesiredDiv8(scloc.target) >= MinDiv8

\* the step of setClock that finds the rounded divisor of a target above 0
\* below 2.0
RejectedStep ==
    /\ pc["worker"] = "sc_begin"
    /\ pc'["worker"] = "sc_poll"
    /\ scloc.target > 0
    /\ DesiredDiv8(scloc.target) < MinDiv8

\* C18 (as stated): the divisor an accepted setClock(target > 0) writes to 0x8208
\* is a multiple of 1/8 (the register is kept in eighths) that is not below the
\* exact divisor VCO / (target + 1), and it is not below 2.0.
C18_DivisorAtLeastExact ==
    [][AcceptedStep =>
          /\ regs'.r8208 * (scloc.target + 1) >= Vco * 8
          /\ regs'.r8208 >= MinDiv8]_vars

\* C19 (as stated): a setClock(target > 0) call rejected for a rounded divisor
\* below 2.0 writes no register and leaves m_lastClk as it was.
C19_RejectedIsNoOp ==
    [][RejectedStep => (regs' = regs /\ m_lastClk' = m_lastClk)]_vars

\* C20 (as stated): when a clock-changing setClock call returns, each of 0x5040,
\* 0x5088 and 0xB000 holds the value it had before the call if its save-read
\* succeeded, and 0 if its save-read failed.
C20_SaveRestore ==
    [][(pc["worker"] = "sc_poll" /\ pc'["worker"] # "sc_poll") =>
          /\ regs'.r5040 = IF scloc.ok.nItems THEN scloc.pre.nItems ELSE 0
          /\ regs'.r5088 = IF scloc.ok.rnItems THEN scloc.pre.rnItems
                            ELSE ZeroRecip
          /\ regs'.rB000 = IF scloc.ok.pwr THEN scloc.pre.pwr ELSE 0]_vars

\* C21 (as stated): the boundary programmed at search entry is the stricter
\* (numerically lower) of the minimum-difficulty floor and the boundary of the
\* work package, for every boundary.
C21_StricterBoundary ==
    fn.op = "target_done" =>
        fn.r5020 = IF HashGreater(fn.boundary, falseTarget) THEN falseTarget
                   ELSE fn.boundary

\* C22 (as stated): the patience and intensity fields of the control word of
\* every search invocation come from the auto-tuner override when one is present
\* at that invocation and from the values configured at startup otherwise, and
\* the settings are never modified.
C22_OverrideElseStatic ==
    (fn.op = "flags" /\ fn.calls > 0) =>
        /\ fn.r5080 = Flags(IF fn.intensSet.set THEN fn.intensSet
                            ELSE fn.static)
        /\ fn.m_settings = fn.static

\* C23: the k-th chunk copy of the duplication goes from staging chunk k-1 to
\* the chunk whose index is k-1 with its nibbles swapped; every copy but the
\* last issued one succeeded (none follows a failure); the copy-back is issued
\* exactly when all 256 chunk copies succeeded.
C23_Duplication ==
    /\ Len(fn.copies) <= 256
    /\ \A k \in 1..Len(fn.copies) :
          /\ fn.copies[k].src = 256 + (k - 1)
          /\ fn.copies[k].dst = ((k - 1) % 16) * 16 + (k - 1) \div 16
          /\ k < Len(fn.copies) => fn.copies[k].ok
    /\ fn.copyBack => (Len(fn.copies) = 256 /\ \A k \in 1..256 : fn.copies[k].ok)
    /\ (fn.op = "dup_done" /\ Len(fn.copies) = 256 /\ fn.copies[256].ok)
          => fn.copyBack

C23_Witness ==
    fn.op = "dup_done" /\ fn.copyBack /\ fn.copies[19].dst = 33

\* the worker is inside initEpoch_internal (its setClock calls included)
EpochPCs == {"ie_begin", "ie_lock", "ie_fast_ret", "ie_regen", "ie_cache",
             "ie_cache_sleep", "ie_mixers", "ie_dag_sleep", "ie_dup",
             "ie_persist", "ie_unlock"}
InEpoch(p, ret) ==
    p \in EpochPCs \/ (p \in {"sc_begin", "sc_settle", "sc_poll"}
                       /\ ret \in EpochPCs)

\* C24: the bulk upload returns failure exactly when some chunk failed and its
\* one retry failed too (a chunk that succeeds on retry does not fail it); apart
\* from that, with die-on-error off, every way out of initEpoch_internal is the
\* successful return to the work loop, whatever reads, writes or copies failed.
C24_FailureOnlyOnLostChunk ==
    /\ [](fn.op = "upload_done" =>
            (fn.result = "false") =
               (\E k \in 1..Len(fn.tries) : fn.tries[k] = <<FALSE, FALSE>>))
    /\ [][(InEpoch(pc["worker"], scloc.ret)
           /\ ~InEpoch(pc'["worker"], scloc'.ret)
           /\ ~m_settings.dieOnError)
             => /\ pc'["worker"] = "wl_top"
                /\ wloc'.current = wloc.w.epoch
                /\ ~exited']_vars

C24_Witness ==
    /\ fn.op = "upload_done"
    /\ fn.result = "continue"
    /\ \E k \in 1..Len(fn.tries) : fn.tries[k] = <<FALSE, TRUE>>
    /\ pc["worker"] = "ie_unlock"
    /\ ie.read = "fail"
    /\ ie.copies < DupChunks

\* C25 (as stated): the process is terminated only under the die-on-error
\* policy and only on a repeated register failure: when it terminates at least
\* two of its checked register operations have failed.
C25_DiesOnRepeatedFailure ==
    fn.op = "ops" /\ fn.exited => fn.dieOnError /\ fn.fails >= 2

\* C26 (as stated): a soft stop whose read of the control word succeeds issues
\* at most 8 writes of the intensity field, with strictly decreasing values,
\* and then writes 0 to core control; one whose read fails issues no intensity
\* write and only the write of 0 to core control.
C26_RampAtMostEight ==
    fn.op = "stop_done" =>
        /\ fn.r506c = <<0>>
        /\ fn.readOk => /\ Len(fn.r5080) <= 8
                        /\ \A k \in 1..(Len(fn.r5080) - 1) :
                              fn.r5080[k + 1] < fn.r5080[k]
        /\ ~fn.readOk => fn.r5080 = <<>>

\* the histories after a call that flushed the sample avg: appended, oldest
\* entry dropped past the capacity
Pushed(v, avg, capacity) ==
    IF Len(v) + 1 > capacity THEN SubSeq(v, 2, Len(v)) \o <<avg>>
    ELSE v \o <<avg>>

\* C27: the 10-entry history never holds more than 10 samples and the 60-entry
\* history never more than 60; a call appends its flushed sample to both
\* histories, dropping the oldest entry of a full one, when the sample is
\* strictly between 10 and 100 units, and leaves both histories as they were
\* otherwise.
C27_Histories ==
    /\ [](fn.op = "avg" => /\ Len(fn.m_10minHashAvg) <= 10
                           /\ Len(fn.m_60minHashAvg) <= 60)
    /\ [][(fn.op = "avg" /\ fn'.calls = fn.calls + 1) =>
            IF /\ fn'.flushed
               /\ fn'.avg1min > 10 * 1000000
               /\ fn'.avg1min < 100 * 1000000
            THEN /\ fn'.m_10minHashAvg
                      = Pushed(fn.m_10minHashAvg, fn'.avg1min, 10)
                 /\ fn'.m_60minHashAvg
                      = Pushed(fn.m_60minHashAvg, fn'.avg1min, 60)
            ELSE /\ fn'.m_10minHashAvg = fn.m_10minHashAvg
                 /\ fn'.m_60minHashAvg = fn.m_60minHashAvg]_vars

\* a full 60-entry history took a sample, and a sample of exactly 10 units was
\* flushed and left out
C27_Witness ==
    /\ fn.op = "avg"
    /\ Len(fn.m_60minHashAvg) = 60
    /\ fn.m_60minHashAvg[60] = 50 * 1000000
    /\ fn.m_60minHashAvg[1] = 20 * 1000000 + 2
    /\ Len(fn.m_10minHashAvg) = 10
    /\ fn.m_10minHashAvg[1] = 20 * 1000000 + 52
    /\ fn.flushed
    /\ fn.avg1min = 10 * 1000000

\* C28 (as stated): every call adds its delta to the counter; the first call
\* made 60 seconds or more after the last flush sets avg1min to the sum of
\* the deltas since that flush divided by 60, resets the counter and restarts
\* the timer, accepted sample or not; earlier calls change only the counter.
C28_FlushAtSixty ==
    [][(fn.op = "avg" /\ fn'.calls = fn.calls + 1) =>
          LET wait == fn'.wait
          IN IF fn.elapsed + wait >= 60
             THEN /\ fn'.avg1min = PerSecond(fn.m_hashCounter + fn'.newTcks)
                  /\ fn'.m_hashCounter = 0
                  /\ fn'.elapsed = 0
             ELSE /\ fn'.m_hashCounter = fn.m_hashCounter + fn'.newTcks
                  /\ fn'.elapsed = fn.elapsed + wait
                  /\ fn'.avg1min = fn.avg1min
                  /\ fn'.m_10minHashAvg = fn.m_10minHashAvg
                  /\ fn'.m_60minHashAvg = fn.m_60minHashAvg]_vars

\* C29: the worker enters search only from the loop head, for a package whose
\* epoch is that of the package of the last successful initEpoch (never before
\* the first one); that epoch is replaced only by a return of initEpoch, with
\* the epoch of the package the call was made for; a package of another epoch
\* sends the loop to initEpoch, not to search.
C29_SearchOnInitialisedEpoch ==
    [][/\ (pc'["worker"] = "s_entry" /\ pc["worker"] # "s_entry")
            => /\ pc["worker"] = "wl_top"
               /\ wloc.current # -1
               /\ wloc'.w.epoch = wloc.current
               /\ wloc'.current = wloc.current
       /\ (wloc'.current # wloc.current /\ pc["worker"] # "wl_init")
            => /\ pc["worker"] \in {"ie_unlock", "ie_fast_ret"}
               /\ pc'["worker"] = "wl_top"
               /\ wloc'.current = wloc.w.epoch
       /\ (pc["worker"] = "wl_top" /\ pc'["worker"] = "ie_begin")
            => /\ wloc'.w.epoch # wloc.current
               /\ wloc'.current = wloc.current]_vars

\* a search on epoch 2 after the epoch changed from 1 to 2
C29_Witness ==
    /\ pc["worker"] = "s_program"
    /\ wloc.current = 2
    /\ wloc.w.epoch = 2
    /\ genDone = {1, 2}

\* C30: the part of a search iteration after the interrupt wait hands exactly
\* one Solution to the sink when the wait returned OK, carrying the nonce of
\* that interrupt and the work package of this search call, and none when the
\* wait timed out or failed; this does not depend on the iteration detecting a
\* stall or on a pending new-work or stop signal.
C30_OneSolutionPerInterrupt ==
    [][(pc["worker"] = "s_relock" /\ pc'["worker"] # "s_relock") =>
          sink' = IF sloc.axiRes = "ok"
                  THEN Append(sink, [nonce |-> sloc.nonce, job |-> wloc.w.id])
                  ELSE sink]_vars

\* a nonce handed over in the iteration that detected a stall, with new work
\* pending
C30_Witness ==
    /\ pc["worker"] = "s_stop"
    /\ sloc.exit = "stall"
    /\ sloc.iter = 1
    /\ m_new_work
    /\ Len(sink) = 1
    /\ sink[1].nonce \in Nonces
    /\ sink[1].job = wloc.w.id


\* C31 (as stated): for every in-band rail-B target t (mV), the two data bytes
\* of the final two-wire transaction of setVoltage encode round(t/1000 x 256),
\* the integer nearest to t*256/1000, low byte first and the high byte with
\* the stop flag (0x200).
C31_RoundedEncoding ==
    LET w == RailWrites(JCRegs)
        n == Len(w)
        nearest == (fn.jcVCCINT * 256 + 500) \div 1000
    IN  (fn.op = "volt_done" /\ fn.jcVCCINT # 0 /\ ~OutOfBand(fn.jcVCCINT)) =>
            /\ n >= 3
            /\ w[n] = [val |-> 1, addr |-> JCRegs.send]
            /\ w[n - 2] = [val |-> nearest % 256, addr |-> JCRegs.fifo]
            /\ w[n - 1] = [val |-> 512 + ((nearest \div 256) % 256),
                           addr |-> JCRegs.fifo]


\* C32 (as stated): the status word at 0x40B8 is written with the valid bit
\* and the epoch only after DAG generation was observed complete and all 256
\* chunk copies plus the final whole-image copy succeeded: a step of
\* initEpoch_internal that changes the word to a valid one is taken with the
\* generator's done bit seen, every chunk copied and the copy back done, so a
\* skipped generation or a failed duplication leaves no valid word.
C32_ValidOnlyAfterCompleteDAG ==
    [][(/\ regs'.r40B8 # regs.r40B8
        /\ regs'.r40B8.hi = 1)
          => /\ pc["worker"] = "ie_persist"
             /\ ie.genSeen
             /\ ie.copies = DupChunks
             /\ ie.finalCopy]_vars


\* C33 (as stated): a stall exit of search requires two stall-counter samples
\* of the same invocation to be equal: the first loop iteration of an
\* invocation never exits for stall, whatever its first sample is (the value 0
\* and the 0 substituted for a failed read included).
C33_NoStallOnFirstSample ==
    [][(WorkerStep("s_relock") /\ sloc.iter = 0)
          => /\ sloc'.exit # "stall"
             /\ pc'["worker"] = "s_loop"]_vars


\* positions whose next step acquires axiMutex, positions whose next step
\* releases it (or leaves the function's loop to release it later), and
\* positions after the return of initEpoch_internal, search and getTelemetry's
\* locked part
LockPCs == [worker |-> {"ie_lock", "ie_cache_sleep", "ie_dag_sleep", "s_program",
                        "s_relock"},
            telemetry |-> {"t_idle"}]
UnlockPCs == [worker |-> {"ie_cache", "ie_mixers", "ie_unlock", "s_loop", "s_stop",
                          "s_unlock"},
              telemetry |-> {"t_read"}]
ReturnedPCs == [worker |-> {"ie_fast_ret", "wl_top"},
                telemetry |-> {"t_ret", "t_estop", "t_refuse", "t_idle"}]

\* C34: lock balance: while the process runs, a thread about to acquire
\* axiMutex does not hold it, a thread about to release it holds it, and
\* after initEpoch_internal (early return, normal end), search (every exit)
\* and getTelemetry have returned the thread does not hold it; the bulk-upload
\* failure returns with the lock released.
C34_LockBalance ==
    /\ Running =>
          \A t \in {"worker", "telemetry"} :
              /\ pc[t] \in LockPCs[t] => axiMutex # t
              /\ pc[t] \in UnlockPCs[t] => axiMutex = t
              /\ pc[t] \in ReturnedPCs[t] => axiMutex # t
    /\ (fn.op = "upload_done" /\ fn.result = "false") => ~fn.held

\* a search that ends for new work after a generation, about to release the
\* lock while telemetry waits for it
C34_Witness ==
    /\ pc = [worker |-> "s_unlock", telemetry |-> "t_idle"]
    /\ sloc.exit = "newwork"
    /\ sloc.iter >= 1
    /\ genDone # {}
    /\ axiMutex = "worker"
    /\ fn = FnIdle

=============================================================================
